---- MODULE Spec2Model ----
(***************************************************************************)
(* FogROS2 cloud provisioning, fogros2/aws.py: the classes CloudInstance,  *)
(* RemoteMachine and AWS.  A record is one Python object of one of these    *)
(* classes; its owner thread runs the constructor (which, for AWS, runs     *)
(* create() to the end) and may afterwards call further methods; reader    *)
(* threads poll get_ready_state() on objects whose constructor returned.   *)
(* Strings are built as the code builds them (\o is Python's +, ToString    *)
(* is str()).                                                               *)
(***************************************************************************)
EXTENDS Naturals, Sequences, FiniteSets, TLC

(* ---------------------------------------------------------------- bounds *)
\* random.randint(10, 1000): the model draws from MinName..MaxName
MinName == 10
MaxName == 11
\* how many reads of instance.public_ip_address may return None
MaxNullReads == 2
\* how many create() runs one record may see (the constructor's is the first)
MaxRuns == 2

Records == {"r1", "r2"}
Readers == {"p1", "p2"}
Names == MinName..MaxName

\* Python's None, and an attribute that no assignment has created yet
None == "None"
Unset == "Unset"

Variants == {"CloudInstance", "RemoteMachine", "AWS"}
DefaultWorkspace == "/home/root/fog_ws"
Workspaces == {DefaultWorkspace, "/tmp/ws"}
WorkingDirBase == "/tmp/fogros/"
\* what a caller of RemoteMachine(ip, ssh_key_path) supplies
SuppliedIp == "10.0.0.5"
SuppliedKey == "/tmp/k.pem"
\* the module-level names of aws.py: its imports and its three classes
ModuleGlobals == {"boto3", "random", "logging", "threading", "make_zip_file",
                  "BashBuilder", "CycloneConfigBuilder", "SCP_Client", "os",
                  "json", "CloudInstance", "RemoteMachine", "AWS"}

VARIABLES
    obj,        \* obj[r]: the attributes of the Python object
    pc,         \* pc[r]: where the owner thread of r is
    run,        \* run[r]: how many create() runs have started on r
    history,    \* history[r]: the lifecycle states the current run entered
    failedAt,   \* failedAt[r]: the program point whose exception ended the owner
    cloud,      \* cloud[r]: the EC2 side: the instance and its address reads
    host,       \* host[r]: the remote machine behind obj[r].scp
    fs,         \* the local file system: path -> content
    gate,       \* gate[r]: what set_ready_state and info have done so far (history)
    visible,    \* the records whose constructor returned: others can reach them
    rd          \* rd[t]: reader thread t inside get_ready_state

vars == <<obj, pc, run, history, failedAt, cloud, host, fs, gate, visible, rd>>

(* ------------------------------------------------------------ the object *)
NoObject ==
    [variant |-> Unset, cyclone_builder |-> Unset, scp |-> Unset,
     public_ip |-> Unset, ros_workspace |-> Unset, ssh_key_path |-> Unset,
     unique_name |-> Unset, working_dir |-> Unset,
     ready_lock |-> FALSE, ready_state |-> FALSE,
     ip |-> Unset,
     ec2_security_group |-> Unset, ec2_key_name |-> Unset,
     ec2_instance |-> Unset, ssh_key |-> Unset,
     ec2_security_group_ids |-> Unset]

NoCloud == [instance |-> None, running |-> FALSE, never |-> FALSE, lag |-> 0,
            reads |-> 0, calls |-> <<>>]
NoHost == [session |-> FALSE, log |-> <<>>, zip |-> None, fog_ws |-> None,
           files |-> {}]
NoGate == [assigned |-> {}, setReturned |-> FALSE, flips |-> 0,
           snapshots |-> <<>>]
IdleReader == [pc |-> "idle", rec |-> "r1", ready |-> FALSE, after |-> FALSE]

Init ==
    /\ obj = [r \in Records |-> NoObject]
    /\ pc = [r \in Records |-> "Unborn"]
    /\ run = [r \in Records |-> 0]
    /\ history = [r \in Records |-> <<>>]
    /\ failedAt = [r \in Records |-> None]
    /\ cloud = [r \in Records |-> NoCloud]
    /\ host = [r \in Records |-> NoHost]
    /\ fs = [p \in {} |-> None]
    /\ gate = [r \in Records |-> NoGate]
    /\ visible = {}
    /\ rd = [t \in Readers |-> IdleReader]

(* ------------------------------------------------------ the file system *)
Exists(p) == p \in DOMAIN fs
WriteFile(f, p, c) == (p :> c) @@ f

(* -------------------------------------------------- the owner's control *)
\* AWS.create, lines 170-180, and the bodies of the methods it calls, as the
\* successor of each program point when the call at that point returns
NextPc(p) ==
    CASE p = "create_security_group" -> "generate_key_pair"
      [] p = "generate_key_pair"     -> "create_instances"
      [] p = "create_instances"      -> "wait_until_running"
      [] p = "wait_until_running"    -> "reload"
      [] p = "reload"                -> "poll"
      [] p = "poll"                  -> "connect"
      [] p = "connect"               -> "apt_install"
      [] p = "apt_install"           -> "pip_install"
      [] p = "pip_install"           -> "make_zip_file"
      [] p = "make_zip_file"         -> "echo_removing"
      [] p = "echo_removing"         -> "rm_old"
      [] p = "rm_old"                -> "send_zip"
      [] p = "send_zip"              -> "unzip"
      [] p = "unzip"                 -> "echo_extracted"
      [] p = "echo_extracted"        -> "info_base"
      [] p = "info_base"             -> "info_aws"
      [] p = "info_aws"              -> "set_acquire"
      [] p = "set_acquire"           -> "set_assign"
      [] p = "set_assign"            -> "set_release"
      [] p = "set_release"           -> "set_return"
      [] p = "set_return"            -> "Returned"
      [] p = "vpn_send"              -> "vpn_up"
      [] p = "vpn_up"                -> "Returned"
      [] p = "dds_generate"          -> "dds_send"
      [] p = "dds_send"              -> "Returned"
      [] p = "launch"                -> "Returned"
      [] OTHER                       -> "Returned"

\* the lifecycle state of the design that the return from program point p
\* completes ("" when p is in the middle of a step)
Entered(p) ==
    CASE p = "poll"           -> "BackendProvisioned"
      [] p = "connect"        -> "SessionEstablished"
      [] p = "pip_install"    -> "DependenciesInstalled"
      [] p = "echo_extracted" -> "WorkspaceSynced"
      [] p = "set_return"     -> "Ready"
      [] p = "vpn_up"         -> "OverlayConfigured"
      [] p = "dds_send"       -> "WorkloadConfigured"
      [] p = "launch"         -> "WorkloadLaunched"
      [] OTHER                -> ""

\* Return with create() calling push_ros_workspace right after connect
Return_skips(r) ==
    /\ pc' = [pc EXCEPT ![r] = IF pc[r] = "connect" THEN "make_zip_file"
                                                    ELSE NextPc(pc[r])]
    /\ history' = [history EXCEPT ![r] =
                     IF Entered(pc[r]) = "" THEN @ ELSE Append(@, Entered(pc[r]))]
    /\ UNCHANGED failedAt

\* Return with push_ros_workspace sending the archive before it removes the
\* old workspace
Return_transfers_first(r) ==
    /\ pc' = [pc EXCEPT ![r] =
                CASE pc[r] = "make_zip_file" -> "send_zip"
                  [] pc[r] = "send_zip"      -> "echo_removing"
                  [] pc[r] = "rm_old"        -> "unzip"
                  [] OTHER                   -> NextPc(pc[r])]
    /\ history' = [history EXCEPT ![r] =
                     IF Entered(pc[r]) = "" THEN @ ELSE Append(@, Entered(pc[r]))]
    /\ UNCHANGED failedAt

\* the call at pc[r] returned normally: go on with the next statement
Return(r) ==
    /\ pc' = [pc EXCEPT ![r] = NextPc(pc[r])]
    /\ history' = [history EXCEPT ![r] =
                     IF Entered(pc[r]) = "" THEN @ ELSE Append(@, Entered(pc[r]))]
    /\ UNCHANGED failedAt

\* Raise with a handler around the call that logs the exception and goes on
Raise_swallows(r) ==
    /\ pc' = [pc EXCEPT ![r] = NextPc(pc[r])]
    /\ failedAt' = [failedAt EXCEPT ![r] = pc[r]]
    /\ UNCHANGED history

\* the call at pc[r] raised: no method of aws.py catches anything (the one
\* except clause, line 224, names ClientError, which the module never
\* imports), so the exception leaves create(), the constructor and the owner
Raise(r) ==
    /\ pc' = [pc EXCEPT ![r] = "Failed"]
    /\ failedAt' = [failedAt EXCEPT ![r] = pc[r]]
    /\ UNCHANGED history

At(r, p) == pc[r] = p

(* ---------------------------------------------------------- construction *)
\* some thread calls CloudInstance(ros_workspace = ws), RemoteMachine(ip, key)
\* or AWS(ros_workspace = ws); lines 25-35 run first in every case
CloudInstance_init(r) ==
    /\ At(r, "Unborn")
    /\ \E v \in Variants, ws \in Workspaces, n \in Names :
         /\ v = "RemoteMachine" => ws = DefaultWorkspace
         /\ LET name == ToString(n)
                dir == WorkingDirBase \o "/" \o name \o "/"
            IN  /\ obj' = [obj EXCEPT ![r] =
                     [NoObject EXCEPT !.variant = v,
                                      !.cyclone_builder = None,
                                      !.scp = None,
                                      !.public_ip = None,
                                      !.ros_workspace = ws,
                                      !.ssh_key_path = None,
                                      !.unique_name = name,
                                      !.working_dir = dir,
                                      !.ready_lock = FALSE,
                                      !.ready_state = FALSE]]
                /\ fs' = IF Exists(dir) THEN fs ELSE WriteFile(fs, dir, "dir")
         /\ pc' = [pc EXCEPT ![r] = CASE v = "CloudInstance" -> "Returned"
                                      [] v = "RemoteMachine" -> "RemoteMachine_init"
                                      [] v = "AWS"           -> "AWS_init"]
         /\ visible' = IF v = "CloudInstance" THEN visible \cup {r} ELSE visible
    /\ history' = [history EXCEPT ![r] = <<"Created">>]
    /\ UNCHANGED <<run, failedAt, cloud, host, gate, rd>>

\* lines 122-125; line 122 reads the name public_ip, which is neither a
\* parameter (that is ip) nor a module-level name: NameError
RemoteMachine_init(r) ==
    /\ At(r, "RemoteMachine_init")
    /\ IF "public_ip" \in ModuleGlobals
       THEN /\ \E n \in Names :
                 obj' = [obj EXCEPT ![r].ip = Unset,
                                    ![r].ssh_key_path = SuppliedKey,
                                    ![r].unique_name = "REMOTE" \o ToString(n)]
            /\ pc' = [pc EXCEPT ![r] = "set_acquire"]
            /\ UNCHANGED <<history, failedAt>>
       ELSE /\ Raise(r)
            /\ UNCHANGED obj
    /\ UNCHANGED <<run, cloud, host, fs, gate, visible, rd>>

\* lines 142-168: the last statement calls create()
AWS_init(r) ==
    /\ At(r, "AWS_init")
    /\ \E n \in Names :
         LET name == "AWS" \o ToString(n)
             key == "FogROSKEY" \o name
         IN  obj' = [obj EXCEPT ![r].unique_name = name,
                                ![r].ec2_security_group = "FOGROS_SECURITY_GROUP" \o name,
                                ![r].ec2_key_name = key,
                                ![r].ssh_key_path = obj[r].working_dir \o key \o ".pem",
                                ![r].ec2_instance = None,
                                ![r].ssh_key = None,
                                ![r].ec2_security_group_ids = None]
    /\ pc' = [pc EXCEPT ![r] = "create_security_group"]
    /\ run' = [run EXCEPT ![r] = 1]
    /\ UNCHANGED <<history, failedAt, cloud, host, fs, gate, visible, rd>>

(* ------------------------------------------------ the cloud resource API *)
Call(c, api) == [c EXCEPT !.calls = Append(@, api)]

InstanceId(r) == "i-" \o r \o "-" \o ToString(run[r])

\* instance.public_ip_address after a reload: None on the first c.lag reads
\* after the instance reports running, the assigned address from then on; an
\* instance launched without a public address (c.never) reads None for ever
public_ip_address(c) ==
    IF c.never \/ c.reads < c.lag THEN None ELSE "ip-of-" \o c.instance

\* one reload followed by one read of the address, lines 270+273 and 275+277
ReadAddress(r) ==
    /\ obj' = [obj EXCEPT ![r].public_ip = public_ip_address(cloud[r]),
                          ![r].ec2_instance = cloud[r].instance]
    /\ cloud' = [cloud EXCEPT ![r].reads =
                   IF cloud[r].never /\ @ > cloud[r].lag THEN @ ELSE @ + 1]

\* create_security_group whose handler catches the failure of the try block,
\* logs it and lets the method return
create_security_group_logs_failure(r) ==
    /\ At(r, "create_security_group")
    /\ \E out \in {"ok", "describe_vpcs", "create_security_group",
                   "authorize_security_group_ingress"} :
         LET made == IF out = "describe_vpcs"
                     THEN <<"describe_vpcs">>
                     ELSE IF out = "create_security_group"
                     THEN <<"describe_vpcs", "create_security_group">>
                     ELSE <<"describe_vpcs", "create_security_group",
                            "authorize_security_group_ingress">>
         IN  /\ cloud' = [cloud EXCEPT ![r].calls = @ \o made]
             /\ IF out = "ok"
                THEN /\ obj' = [obj EXCEPT ![r].ec2_security_group_ids =
                                  "[sg-" \o obj[r].ec2_security_group \o "]"]
                     /\ Return(r)
                ELSE IF out = "describe_vpcs"
                THEN Raise(r) /\ UNCHANGED obj
                ELSE Return(r) /\ UNCHANGED obj
    /\ UNCHANGED <<run, host, fs, gate, visible, rd>>

\* lines 197-227.  An exception of describe_vpcs (or the IndexError of an empty
\* Vpcs list) leaves at once; one inside the try reaches line 224, where
\* evaluating the name ClientError raises NameError (with the name imported the
\* handler would log and line 226 read the unbound local: UnboundLocalError)
create_security_group(r) ==
    /\ At(r, "create_security_group")
    /\ \E out \in {"ok", "describe_vpcs", "create_security_group",
                   "authorize_security_group_ingress"} :
         LET made == IF out = "describe_vpcs"
                     THEN <<"describe_vpcs">>
                     ELSE IF out = "create_security_group"
                     THEN <<"describe_vpcs", "create_security_group">>
                     ELSE <<"describe_vpcs", "create_security_group",
                            "authorize_security_group_ingress">>
         IN  /\ cloud' = [cloud EXCEPT ![r].calls = @ \o made]
             /\ IF out = "ok"
                THEN /\ obj' = [obj EXCEPT ![r].ec2_security_group_ids =
                                  "[sg-" \o obj[r].ec2_security_group \o "]"]
                     /\ Return(r)
                ELSE /\ Raise(r)
                     /\ UNCHANGED obj
    /\ UNCHANGED <<run, host, fs, gate, visible, rd>>

\* generate_key_pair that keeps the key in memory and writes no file
generate_key_pair_keeps_in_memory(r) ==
    /\ At(r, "generate_key_pair")
    /\ cloud' = [cloud EXCEPT ![r] = Call(@, "create_key_pair")]
    /\ \E out \in {"ok", "create_key_pair"} :
         LET ec2_priv_key == "KeyMaterial(" \o obj[r].ec2_key_name \o ")"
         IN  IF out = "ok"
             THEN /\ obj' = [obj EXCEPT ![r].ssh_key = ec2_priv_key]
                  /\ Return(r)
             ELSE /\ Raise(r)
                  /\ UNCHANGED obj
    /\ UNCHANGED <<run, host, fs, gate, visible, rd>>

\* lines 229-237
generate_key_pair(r) ==
    /\ At(r, "generate_key_pair")
    /\ cloud' = [cloud EXCEPT ![r] = Call(@, "create_key_pair")]
    /\ \E out \in {"ok", "create_key_pair", "open"} :
         LET ec2_priv_key == "KeyMaterial(" \o obj[r].ec2_key_name \o ")"
         IN  IF out = "ok"
             THEN /\ fs' = WriteFile(fs, obj[r].ssh_key_path, ec2_priv_key)
                  /\ obj' = [obj EXCEPT ![r].ssh_key = ec2_priv_key]
                  /\ Return(r)
             ELSE /\ Raise(r)
                  /\ UNCHANGED <<obj, fs>>
    /\ UNCHANGED <<run, host, gate, visible, rd>>

\* create_ec2_instance, lines 244-264: the request; the environment fixes here
\* how many reads of the address will still find it unassigned
create_instances(r) ==
    /\ At(r, "create_instances")
    /\ \E ok \in BOOLEAN, lag \in 0..MaxNullReads, never \in BOOLEAN :
         IF ok
         THEN /\ never => lag = 0
              /\ cloud' = [cloud EXCEPT ![r] =
                    [Call(@, "create_instances") EXCEPT
                        !.instance = InstanceId(r), !.running = FALSE,
                        !.never = never, !.lag = lag, !.reads = 0]]
              /\ host' = [host EXCEPT ![r] = NoHost]
              /\ Return(r)
         ELSE /\ lag = 0 /\ ~never
              /\ cloud' = [cloud EXCEPT ![r] = Call(@, "create_instances")]
              /\ UNCHANGED host
              /\ Raise(r)
    /\ UNCHANGED <<obj, run, fs, gate, visible, rd>>

\* instance.reload() raised (lines 270 and 275): the exception leaves create()
ReloadRaises(r) ==
    /\ cloud' = [cloud EXCEPT ![r] = Call(@, "reload raised")]
    /\ Raise(r)
    /\ UNCHANGED obj

\* line 267: the boto3 waiter returns when the instance runs, or gives up
wait_until_running(r) ==
    /\ At(r, "wait_until_running")
    /\ \E ok \in BOOLEAN :
         IF ok THEN /\ cloud' = [cloud EXCEPT ![r].running = TRUE]
                    /\ Return(r)
               ELSE /\ cloud' = [cloud EXCEPT ![r] = Call(@, "WaiterError")]
                    /\ Raise(r)
    /\ UNCHANGED <<obj, run, host, fs, gate, visible, rd>>

\* lines 270-273: reload, keep the handle, first read of the address
reload(r) ==
    /\ At(r, "reload")
    /\ \E ok \in BOOLEAN :
         IF ok THEN ReadAddress(r) /\ Return(r)
               ELSE ReloadRaises(r)
    /\ UNCHANGED <<run, host, fs, gate, visible, rd>>

\* poll_public_ip with `if` in place of `while`: one more read, then go on
poll_public_ip_reads_once(r) ==
    /\ At(r, "poll")
    /\ IF obj[r].public_ip = None
       THEN \E ok \in BOOLEAN :
              IF ok THEN ReadAddress(r) /\ Return(r)
                    ELSE ReloadRaises(r)
       ELSE Return(r) /\ UNCHANGED <<obj, cloud>>
    /\ UNCHANGED <<run, host, fs, gate, visible, rd>>

\* poll_public_ip with the address read once more after the loop has ended
poll_public_ip_rereads(r) ==
    /\ At(r, "poll")
    /\ IF obj[r].public_ip = None
       THEN \E ok \in BOOLEAN :
              IF ok THEN ReadAddress(r) /\ UNCHANGED <<pc, history, failedAt>>
                    ELSE ReloadRaises(r)
       ELSE ReadAddress(r) /\ Return(r)
    /\ UNCHANGED <<run, host, fs, gate, visible, rd>>

\* lines 274-279: while not self.public_ip: reload and read again
poll_public_ip(r) ==
    /\ At(r, "poll")
    /\ IF obj[r].public_ip = None
       THEN \E ok \in BOOLEAN :
              IF ok THEN ReadAddress(r) /\ UNCHANGED <<pc, history, failedAt>>
                    ELSE ReloadRaises(r)
       ELSE Return(r) /\ UNCHANGED <<obj, cloud>>
    /\ UNCHANGED <<run, host, fs, gate, visible, rd>>

(* ------------------------------ the remote session (SCP_Client, scp.py) *)
\* the command each program point passes to execute_cmd
Cmd(p) ==
    CASE p = "apt_install"    -> "sudo apt install -y wireguard unzip"
      [] p = "pip_install"    -> "sudo pip3 install wgconfig boto3 paramiko scp"
      [] p = "echo_removing"  -> "echo removing old workspace"
      [] p = "rm_old"         -> "rm -rf ros_workspace.zip ros2_ws fog_ws"
      [] p = "unzip"          -> "unzip -q /home/ubuntu/ros_workspace.zip"
      [] p = "echo_extracted" -> "echo successfully extracted new workspace"
      [] p = "vpn_up"         -> "sudo cp /tmp/fogros-aws.conf /etc/wireguard/wg0.conf && sudo chmod 600 /etc/wireguard/wg0.conf && sudo wg-quick up wg0"
      [] p = "launch"         -> "ros2 launch fogros2 cloud.launch.py"
      [] OTHER                -> ""

ZipPath == "/tmp/ros_workspace.zip"
DdsPath == "/tmp/cyclonedds.xml"

\* the local file and the remote place each program point passes to send_file
SendSrc(r, p) ==
    CASE p = "send_zip" -> ZipPath
      [] p = "dds_send" -> DdsPath
      [] OTHER          -> "/tmp/fogros-cloud.conf" \o obj[r].unique_name
SendDst(p) ==
    CASE p = "send_zip" -> "/home/ubuntu/"
      [] p = "dds_send" -> "~/cyclonedds.xml"
      [] OTHER          -> "/tmp/fogros-aws.conf"

\* a command can succeed only on an open session, and unzip only on an archive
CanSucceed(h, cmd) ==
    /\ h.session
    /\ cmd = Cmd("unzip") => h.zip # None

\* what the remote machine looks like after the command ran to exit status 0
scp_execute_cmd(h, cmd) ==
    IF cmd = Cmd("rm_old") THEN [h EXCEPT !.zip = None, !.fog_ws = None]
    ELSE IF cmd = Cmd("unzip") THEN [h EXCEPT !.fog_ws = h.zip]
    ELSE h

\* after the transfer of a local file with content c to the remote place dst
scp_send_file(h, c, dst) ==
    IF dst = "/home/ubuntu/" THEN [h EXCEPT !.zip = c]
    ELSE [h EXCEPT !.files = @ \cup {dst}]

Logged(h, what) == [h EXCEPT !.log = Append(@, what)]

\* lines 53-55: self.scp is assigned before the connection is attempted
connect(r) ==
    /\ At(r, "connect")
    /\ obj' = [obj EXCEPT ![r].scp =
                 "SCP_Client(" \o obj[r].public_ip \o ", " \o obj[r].ssh_key_path \o ")"]
    /\ \E ok \in BOOLEAN :
         IF ok THEN /\ host' = [host EXCEPT ![r].session = TRUE]
                    /\ Return(r)
               ELSE /\ UNCHANGED host
                    /\ Raise(r)
    /\ UNCHANGED <<run, cloud, fs, gate, visible, rd>>

ExecPoints == {"apt_install", "pip_install", "echo_removing", "rm_old", "unzip",
               "echo_extracted", "vpn_up", "launch"}

\* self.scp.execute_cmd(...) at lines 79, 80, 88, 89, 91, 92, 99 and 117:
\* with self.scp still None the attribute lookup raises; a command that exits
\* nonzero raises
execute_cmd(r) ==
    /\ pc[r] \in ExecPoints
    /\ IF obj[r].scp = None
       THEN Raise(r) /\ UNCHANGED host
       ELSE \E ok \in BOOLEAN :
              /\ ok => CanSucceed(host[r], Cmd(pc[r]))
              /\ IF ok
                 THEN /\ host' = [host EXCEPT ![r] =
                            Logged(scp_execute_cmd(@, Cmd(pc[r])), Cmd(pc[r]))]
                      /\ Return(r)
                 ELSE /\ host' = [host EXCEPT ![r] = Logged(@, Cmd(pc[r]))]
                      /\ Raise(r)
    /\ UNCHANGED <<obj, run, cloud, fs, gate, visible, rd>>

\* the transfer at pc[r]: it needs the session and the local file
Send(r, p) ==
    \E ok \in BOOLEAN :
      /\ ok => host[r].session /\ Exists(SendSrc(r, p))
      /\ IF ok
         THEN host' = [host EXCEPT ![r] =
                  Logged(scp_send_file(@, fs[SendSrc(r, p)], SendDst(p)),
                         "send " \o SendDst(p))]
         ELSE UNCHANGED host
      /\ IF ok THEN Return(r) ELSE Raise(r)

\* self.scp.send_file(...) at lines 90 and 107
send_file(r) ==
    /\ pc[r] \in {"send_zip", "dds_send"}
    /\ IF obj[r].scp = None
       THEN Raise(r) /\ UNCHANGED host
       ELSE Send(r, pc[r])
    /\ UNCHANGED <<obj, run, cloud, fs, gate, visible, rd>>

\* line 87: the archive of the workspace always goes to the same local path
make_zip_file(r) ==
    /\ At(r, "make_zip_file")
    /\ \E ok \in BOOLEAN :
         IF ok THEN /\ fs' = WriteFile(fs, ZipPath, "zip of " \o obj[r].ros_workspace)
                    /\ Return(r)
               ELSE /\ UNCHANGED fs
                    /\ Raise(r)
    /\ UNCHANGED <<obj, run, cloud, host, gate, visible, rd>>

(* ------------------------------------------------------------ the snapshot *)
\* CloudInstance.info, lines 41-47, as the JSON text json.dump writes
InfoBase(o) ==
    "name: " \o o.unique_name \o ", ros_workspace: " \o o.ros_workspace
    \o ", working_dir: " \o o.working_dir \o ", ssh_key_path: " \o o.ssh_key_path
    \o ", public_ip: " \o o.public_ip

\* AWS.info, lines 183-188: the base fields and the cloud-only ones
InfoAWS(o) == InfoBase(o) \o ", ec2_instance_id: " \o o.ec2_instance

InfoPath(o) == o.working_dir \o "info"

\* the record of one write of the file: the run, the last state the run had
\* entered, the flag at that moment, and which fields went into the file
Snapshot(r, fields) ==
    [run |-> run[r], after |-> history[r][Len(history[r])],
     ready |-> obj[r].ready_state, fields |-> fields]

\* line 179 -> line 183 -> lines 48-50: the base class writes the base fields
info_base(r) ==
    /\ At(r, "info_base")
    /\ \E ok \in BOOLEAN :
         IF ok THEN /\ fs' = WriteFile(fs, InfoPath(obj[r]), InfoBase(obj[r]))
                    /\ gate' = [gate EXCEPT ![r].snapshots =
                                  Append(@, Snapshot(r, "base"))]
                    /\ Return(r)
               ELSE /\ UNCHANGED <<fs, gate>>
                    /\ Raise(r)
    /\ UNCHANGED <<obj, run, cloud, host, visible, rd>>

\* info_aws that returns the dictionary and leaves the file as the base wrote it
info_aws_keeps_base_file(r) ==
    /\ At(r, "info_aws")
    /\ Return(r)
    /\ UNCHANGED <<obj, run, cloud, host, fs, gate, visible, rd>>

\* lines 184-192: the same file is written again, now with all the fields
info_aws(r) ==
    /\ At(r, "info_aws")
    /\ \E ok \in BOOLEAN :
         IF ok THEN /\ fs' = WriteFile(fs, InfoPath(obj[r]), InfoAWS(obj[r]))
                    /\ gate' = [gate EXCEPT ![r].snapshots =
                                  Append(@, Snapshot(r, "all"))]
                    /\ Return(r)
               ELSE /\ UNCHANGED <<fs, gate>>
                    /\ Raise(r)
    /\ UNCHANGED <<obj, run, cloud, host, visible, rd>>

(* ------------------------------------------------------ the readiness flag *)
\* CanAcquire of a lock whose acquire() returns at once
CanAcquire_never_blocks(o) == TRUE

\* threading.Lock.acquire() blocks while the lock is held
CanAcquire(o) == ~o.ready_lock

\* the threads between acquire and release of r's lock
InCS(r) ==
    {t \in Readers : rd[t].rec = r /\ rd[t].pc \in {"get_read", "get_release"}}
    \cup (IF pc[r] \in {"set_assign", "set_release"} THEN {"owner"} ELSE {})

\* the argument of set_ready_state at its two call sites, lines 125 and 180:
\* both leave it to the default, ready = True
ReadyArg == TRUE

\* line 73
set_acquire(r) ==
    /\ At(r, "set_acquire")
    /\ CanAcquire(obj[r])
    /\ obj' = [obj EXCEPT ![r].ready_lock = TRUE]
    /\ Return(r)
    /\ UNCHANGED <<run, cloud, host, fs, gate, visible, rd>>

\* line 74
set_assign(r) ==
    /\ At(r, "set_assign")
    /\ obj' = [obj EXCEPT ![r].ready_state = ReadyArg]
    /\ gate' = [gate EXCEPT ![r].assigned = @ \cup {ReadyArg},
                            ![r].flips = IF ~obj[r].ready_state /\ ReadyArg
                                         THEN @ + 1 ELSE @]
    /\ Return(r)
    /\ UNCHANGED <<run, cloud, host, fs, visible, rd>>

\* line 75
set_release(r) ==
    /\ At(r, "set_release")
    /\ obj' = [obj EXCEPT ![r].ready_lock = FALSE]
    /\ Return(r)
    /\ UNCHANGED <<run, cloud, host, fs, gate, visible, rd>>

\* line 76, and with it the return of create() (line 180) and, in the first
\* run, of the constructor (lines 168 and 125)
set_return(r) ==
    /\ At(r, "set_return")
    /\ gate' = [gate EXCEPT ![r].setReturned = @ \/ ReadyArg]
    /\ visible' = visible \cup {r}
    /\ Return(r)
    /\ UNCHANGED <<obj, run, cloud, host, fs, rd>>

\* a reader calls get_ready_state() on an object it can reach
get_call(t) ==
    /\ rd[t].pc = "idle"
    /\ \E r \in visible :
         rd' = [rd EXCEPT ![t] = [pc |-> "get_acquire", rec |-> r, ready |-> FALSE,
                                  after |-> gate[r].setReturned]]
    /\ UNCHANGED <<obj, pc, run, history, failedAt, cloud, host, fs, gate, visible>>

\* line 67
get_acquire(t) ==
    /\ rd[t].pc = "get_acquire"
    /\ CanAcquire(obj[rd[t].rec])
    /\ obj' = [obj EXCEPT ![rd[t].rec].ready_lock = TRUE]
    /\ rd' = [rd EXCEPT ![t].pc = "get_read"]
    /\ UNCHANGED <<pc, run, history, failedAt, cloud, host, fs, gate, visible>>

\* line 68
get_read(t) ==
    /\ rd[t].pc = "get_read"
    /\ rd' = [rd EXCEPT ![t].pc = "get_release",
                        ![t].ready = obj[rd[t].rec].ready_state]
    /\ UNCHANGED <<obj, pc, run, history, failedAt, cloud, host, fs, gate, visible>>

\* line 69
get_release(t) ==
    /\ rd[t].pc = "get_release"
    /\ obj' = [obj EXCEPT ![rd[t].rec].ready_lock = FALSE]
    /\ rd' = [rd EXCEPT ![t].pc = "get_return"]
    /\ UNCHANGED <<pc, run, history, failedAt, cloud, host, fs, gate, visible>>

\* line 70: the caller has the value; the reader is free to poll again
get_return(t) ==
    /\ rd[t].pc = "get_return"
    /\ rd' = [rd EXCEPT ![t] = IdleReader]
    /\ UNCHANGED <<obj, pc, run, history, failedAt, cloud, host, fs, gate, visible>>

(* ---------------------------------- what the owner may call afterwards *)
Range(q) == {q[i] : i \in DOMAIN q}

\* create with a base class whose create() is a default that reports ready
create_base_default(r) ==
    /\ At(r, "Returned")
    /\ run[r] < MaxRuns
    /\ run' = [run EXCEPT ![r] = @ + 1]
    /\ IF obj[r].variant = "AWS"
       THEN /\ pc' = [pc EXCEPT ![r] = "create_security_group"]
            /\ history' = [history EXCEPT ![r] = <<"Created">>]
            /\ cloud' = [cloud EXCEPT ![r].calls = <<>>]
            /\ UNCHANGED <<failedAt, obj>>
       ELSE IF obj[r].variant = "CloudInstance"
       THEN /\ obj' = [obj EXCEPT ![r].ready_state = TRUE]
            /\ UNCHANGED <<pc, history, failedAt, cloud>>
       ELSE UNCHANGED <<pc, history, failedAt, cloud, obj>>
    /\ UNCHANGED <<host, fs, gate, visible, rd>>

\* create that clears the flag when a run starts
create_resets(r) ==
    /\ At(r, "Returned")
    /\ run[r] < MaxRuns
    /\ run' = [run EXCEPT ![r] = @ + 1]
    /\ pc' = [pc EXCEPT ![r] = IF obj[r].variant = "AWS"
                               THEN "create_security_group" ELSE "Failed"]
    /\ history' = [history EXCEPT ![r] = <<"Created">>]
    /\ cloud' = [cloud EXCEPT ![r].calls = <<>>]
    /\ failedAt' = [failedAt EXCEPT ![r] = IF obj[r].variant = "AWS"
                                           THEN @ ELSE "create"]
    /\ obj' = [obj EXCEPT ![r].ready_state = FALSE]
    /\ UNCHANGED <<host, fs, gate, visible, rd>>

\* the owner calls create() on an object whose constructor returned: line 38
\* for the base class, line 130 for RemoteMachine, line 170 for AWS
create(r) ==
    /\ At(r, "Returned")
    /\ run[r] < MaxRuns
    /\ run' = [run EXCEPT ![r] = @ + 1]
    /\ IF obj[r].variant = "AWS"
       THEN /\ pc' = [pc EXCEPT ![r] = "create_security_group"]
            /\ history' = [history EXCEPT ![r] = <<"Created">>]
            /\ cloud' = [cloud EXCEPT ![r].calls = <<>>]
            /\ UNCHANGED failedAt
       ELSE IF obj[r].variant = "CloudInstance"
       THEN /\ pc' = [pc EXCEPT ![r] = "Failed"]
            /\ failedAt' = [failedAt EXCEPT ![r] = "create"]
            /\ UNCHANGED <<history, cloud>>
       ELSE UNCHANGED <<pc, history, failedAt, cloud>>
    /\ UNCHANGED <<obj, host, fs, gate, visible, rd>>

\* line 98; line 99 follows at "vpn_up".  The local file is written, or not,
\* by code outside aws.py
push_and_setup_vpn(r) ==
    /\ At(r, "Returned")
    /\ "OverlayConfigured" \notin Range(history[r])
    /\ IF obj[r].scp = None
       THEN /\ pc' = [pc EXCEPT ![r] = "Failed"]
            /\ failedAt' = [failedAt EXCEPT ![r] = "vpn_send"]
            /\ UNCHANGED <<history, host>>
       ELSE \E ok \in BOOLEAN :
              /\ ok => host[r].session
              /\ IF ok
                 THEN /\ host' = [host EXCEPT ![r] =
                            Logged(scp_send_file(@, "conf", SendDst("vpn_send")),
                                   "send " \o SendDst("vpn_send"))]
                      /\ pc' = [pc EXCEPT ![r] = "vpn_up"]
                      /\ UNCHANGED <<history, failedAt>>
                 ELSE /\ pc' = [pc EXCEPT ![r] = "Failed"]
                      /\ failedAt' = [failedAt EXCEPT ![r] = "vpn_send"]
                      /\ UNCHANGED <<history, host>>
    /\ UNCHANGED <<obj, run, cloud, fs, gate, visible, rd>>

\* lines 105-106; line 107 follows at "dds_send"
configure_DDS(r) ==
    /\ At(r, "Returned")
    /\ "WorkloadConfigured" \notin Range(history[r])
    /\ obj' = [obj EXCEPT ![r].cyclone_builder = "CycloneConfigBuilder([10.0.0.1])"]
    /\ fs' = WriteFile(fs, DdsPath, "cyclonedds.xml for 10.0.0.1")
    /\ pc' = [pc EXCEPT ![r] = "dds_send"]
    /\ UNCHANGED <<run, history, failedAt, cloud, host, gate, visible, rd>>

\* lines 110-116; line 117 follows at "launch".  Line 114 reads
\* self.cyclone_builder.env_cmd: AttributeError while the builder is None
launch_cloud_node(r) ==
    /\ At(r, "Returned")
    /\ "WorkloadLaunched" \notin Range(history[r])
    /\ IF obj[r].cyclone_builder = None
       THEN /\ pc' = [pc EXCEPT ![r] = "Failed"]
            /\ failedAt' = [failedAt EXCEPT ![r] = "launch"]
       ELSE /\ pc' = [pc EXCEPT ![r] = "launch"]
            /\ UNCHANGED failedAt
    /\ UNCHANGED <<obj, run, history, cloud, host, fs, gate, visible, rd>>

(* ------------------------------------------------------ specifications *)
\* the constructor of r, with the create() run it contains
Construct(r) ==
    \/ CloudInstance_init(r)
    \/ RemoteMachine_init(r)
    \/ AWS_init(r)

\* the steps of a create() run
Pipeline(r) ==
    \/ create_security_group(r)
    \/ generate_key_pair(r)
    \/ create_instances(r)
    \/ wait_until_running(r)
    \/ reload(r)
    \/ poll_public_ip(r)
    \/ connect(r)
    \/ execute_cmd(r)
    \/ send_file(r)
    \/ make_zip_file(r)
    \/ info_base(r)
    \/ info_aws(r)
    \/ set_acquire(r)
    \/ set_assign(r)
    \/ set_release(r)
    \/ set_return(r)

\* what the owner calls on the constructed object
Owner(r) ==
    \/ create(r)
    \/ push_and_setup_vpn(r)
    \/ configure_DDS(r)
    \/ launch_cloud_node(r)

Reader(t) ==
    \/ get_call(t)
    \/ get_acquire(t)
    \/ get_read(t)
    \/ get_release(t)
    \/ get_return(t)

\* one record, its owner, and the readers that poll it
Next ==
    \/ \E r \in {"r1"} : Construct(r) \/ Pipeline(r) \/ Owner(r)
    \/ \E t \in Readers : Reader(t)

Spec == Init /\ [][Next]_vars

\* two records constructed at the same time, each by its own thread
NextConcurrent == \E r \in Records : Construct(r) \/ Pipeline(r)

SpecConcurrent == Init /\ [][NextConcurrent]_vars

\* one record and its owner, whose thread is never starved: whenever a step
\* of create() can be taken, one eventually is
NextOwner == \E r \in {"r1"} : Construct(r) \/ Pipeline(r) \/ Owner(r)

SpecFair == Init /\ [][NextOwner]_vars /\ WF_vars(Pipeline("r1"))

(* ================================================================ claims *)
IsAWS(r) == obj[r].variant = "AWS"
IsRemoteMachine(r) == obj[r].variant = "RemoteMachine"

IsPrefix(a, b) == Len(a) <= Len(b) /\ \A i \in 1..Len(a) : a[i] = b[i]

\* the states a create() run entered: the history up to the first Ready (what
\* follows was entered by methods the owner called after create() returned)
CreateTrace(r) ==
    LET at == {i \in DOMAIN history[r] : history[r][i] = "Ready"}
    IN  IF at = {} THEN history[r]
        ELSE SubSeq(history[r], 1, CHOOSE i \in at : \A j \in at : i <= j)

\* the nine states of the design, section 4.2
DesignOrder ==
    <<"Created", "BackendProvisioned", "SessionEstablished", "DependenciesInstalled",
      "WorkspaceSynced", "OverlayConfigured", "WorkloadConfigured",
      "WorkloadLaunched", "Ready">>

\* the six states of AWS.create
CreateOrder ==
    <<"Created", "BackendProvisioned", "SessionEstablished", "DependenciesInstalled",
      "WorkspaceSynced", "Ready">>

SetPoints == {"set_acquire", "set_assign", "set_release", "set_return"}

\* C1 as claimed: a cloud-backend create() run enters the nine states of the
\* design in their order, none skipped, so Ready only after OverlayConfigured,
\* WorkloadConfigured and WorkloadLaunched
C1_NineStatesInOrder ==
    \A r \in Records : IsAWS(r) => IsPrefix(CreateTrace(r), DesignOrder)

\* C1 amended: a cloud-backend create() run enters Created, BackendProvisioned,
\* SessionEstablished, DependenciesInstalled, WorkspaceSynced, Ready in that
\* order, none skipped: the flag is set only at the end of a run that entered
\* the five before Ready, and the three other states are entered, if at all,
\* after Ready, by the methods the owner calls once create() has returned
C1_SixStatesInOrder ==
    \A r \in Records : IsAWS(r) =>
        /\ IsPrefix(CreateTrace(r), CreateOrder)
        /\ pc[r] \in SetPoints => history[r] = SubSeq(CreateOrder, 1, 5)
        /\ \A i \in DOMAIN history[r] :
             history[r][i] \in {"OverlayConfigured", "WorkloadConfigured",
                                "WorkloadLaunched"}
               => \E j \in 1..(i - 1) : history[r][j] = "Ready"

\* C1 witness: a run that went all the way to Ready
C1_Witness ==
    IsAWS("r1") /\ pc["r1"] = "Returned" /\ history["r1"] = CreateOrder

\* the program points of create() and of what it calls
CreatePoints ==
    {"create_security_group", "generate_key_pair", "create_instances",
     "wait_until_running", "reload", "poll", "connect", "apt_install",
     "pip_install", "make_zip_file", "echo_removing", "rm_old", "send_zip",
     "unzip", "echo_extracted", "info_base", "info_aws"} \cup SetPoints

\* C2 as claimed: the flag of a cloud-backend record is true only when every
\* step of create() has completed (in this run or in an earlier one), and it
\* is false when a step of create() has failed, for the rest of that run
C2_ReadyOnlyAfterAllSteps ==
    \A r \in Records : IsAWS(r) =>
        /\ obj[r].ready_state =>
             run[r] > 1 \/ IsPrefix(SubSeq(CreateOrder, 1, 5), history[r])
        /\ failedAt[r] \in CreatePoints => ~obj[r].ready_state

\* C3: a failed step ends the run in Failed, and from then on the record's
\* owner runs no step: no program point, lifecycle state, API call, remote
\* command, transfer or attribute of the record changes (the lock and the
\* readers' own state apart)
C3_FailFast ==
    /\ [](\A r \in Records : failedAt[r] # None => pc[r] = "Failed")
    /\ [][\A r \in Records : pc[r] = "Failed" =>
            /\ pc'[r] = "Failed"
            /\ failedAt'[r] = failedAt[r]
            /\ history'[r] = history[r]
            /\ run'[r] = run[r]
            /\ cloud'[r] = cloud[r]
            /\ host'[r] = host[r]
            /\ [obj'[r] EXCEPT !.ready_lock = FALSE]
                 = [obj[r] EXCEPT !.ready_lock = FALSE]]_vars

\* C3 witness: the removal of the old workspace failed in the middle of the
\* workspace-sync step
C3_Witness ==
    pc["r1"] = "Failed" /\ failedAt["r1"] = "rm_old"

\* C4: the flag never goes from true to false, goes from false to true at most
\* once, and a get_ready_state() called after set_ready_state(True) returned
\* returns true
C4_SetOnceNeverReset ==
    /\ [](\A r \in Records : gate[r].flips <= 1)
    /\ [](\A t \in Readers : rd[t].pc = "get_return" /\ rd[t].after => rd[t].ready)
    /\ [][\A r \in Records : obj[r].ready_state => obj'[r].ready_state]_vars

\* C4 witness: a reader returns from a call made after the set returned, while
\* a second run is under way
C4_Witness ==
    \E t \in Readers : /\ rd[t].pc = "get_return" /\ rd[t].after
                       /\ run[rd[t].rec] = 2 /\ pc[rd[t].rec] \in CreatePoints

\* C5: at most one thread is between acquire and release, the lock is held
\* exactly while one is (so a thread that returned has released it and the
\* holder is a thread whose next step releases it), and a get returns the
\* initial value or one that a set assigned
C5_LockAtomic ==
    \A r \in Records :
        /\ Cardinality(InCS(r)) <= 1
        /\ obj[r].ready_lock <=> InCS(r) # {}
        /\ \A t \in Readers :
             rd[t].rec = r /\ rd[t].pc \in {"get_release", "get_return"}
               => rd[t].ready \in {FALSE} \cup gate[r].assigned

\* C5 witness: the writer is inside set_ready_state holding the lock while one
\* reader waits for it and another has just returned
C5_Witness ==
    /\ pc["r1"] = "set_assign"
    /\ \E t, u \in Readers : rd[t].pc = "get_acquire" /\ rd[u].pc = "get_return"

\* C6 as claimed: the archive on a record's host is the archive of that
\* record's own workspace, under every interleaving of two constructions
C6_OwnArchive ==
    \A r \in Records :
        host[r].zip \in {None, "zip of " \o obj[r].ros_workspace}

\* C7 as claimed: once unique_name has a value, no step changes it
C7_NameNeverChanges ==
    [][\A r \in Records : obj[r].unique_name # Unset
          => obj'[r].unique_name = obj[r].unique_name]_vars

Finished(r) == pc[r] \in {"Returned", "Failed"}

C9_RemoteMachineReady ==
    \A r \in Records : IsRemoteMachine(r) =>
        /\ pc[r] # "Failed"
        /\ pc[r] = "Returned" =>
             obj[r].ready_state /\ ~host[r].session /\ host[r].log = <<>>

\* C10: the instance-creation step never reads the address more often than
\* the number of null reads plus one, and when it has completed it has read
\* it exactly that often and public_ip is the value of the last read
C10_ExactlyNReads ==
    \A r \in Records :
        /\ cloud[r].reads <= cloud[r].lag + 1
        /\ "BackendProvisioned" \in Range(history[r])
             => /\ cloud[r].reads = cloud[r].lag + 1
                /\ obj[r].public_ip = "ip-of-" \o cloud[r].instance

\* C10 witness: N = 3, two null reads and then the address
C10_Witness ==
    /\ "BackendProvisioned" \in Range(history["r1"])
    /\ cloud["r1"].lag = 2 /\ cloud["r1"].reads = 3

NonNull(x) == x \notin {None, Unset}

\* C11: connect is called, and a session is open, only on a record whose
\* public_ip and ssh_key_path are set and whose key file holds the private
\* key; the remote side has seen no command and no transfer without a session
C11_SessionNeedsAddressAndKey ==
    \A r \in Records :
        /\ pc[r] = "connect" \/ host[r].session =>
             /\ NonNull(obj[r].public_ip)
             /\ NonNull(obj[r].ssh_key_path)
             /\ Exists(obj[r].ssh_key_path)
             /\ NonNull(obj[r].ssh_key)
             /\ fs[obj[r].ssh_key_path] = obj[r].ssh_key
        /\ host[r].log # <<>> => host[r].session

\* C11 witness: the session has just been opened and the first command is due
C11_Witness ==
    host["r1"].session /\ pc["r1"] = "apt_install" /\ host["r1"].log = <<>>

\* C12: over every sequence of operations, a further create() call
\* included, public_ip leaves null at most once and keeps the value it got
C12_AddressAssignedOnce ==
    [][\A r \in Records :
          NonNull(obj[r].public_ip) => obj'[r].public_ip = obj[r].public_ip]_vars

\* C13: once the constructor has returned, working_dir is the base joined
\* with the record's current unique_name, and the key path and the cloud
\* resource names are formed from that same unique_name
C13_PathsFromCurrentName ==
    \A r \in visible :
        LET o == obj[r]
        IN  /\ o.working_dir = WorkingDirBase \o "/" \o o.unique_name \o "/"
            /\ IsAWS(r) =>
                 /\ o.ec2_security_group = "FOGROS_SECURITY_GROUP" \o o.unique_name
                 /\ o.ec2_key_name = "FogROSKEY" \o o.unique_name
                 /\ o.ssh_key_path = WorkingDirBase \o "/" \o o.unique_name \o "/"
                                       \o o.ec2_key_name \o ".pem"

\* the cloud API calls of one provisioning, in the order create() makes them
ProvisionCalls ==
    <<"describe_vpcs", "create_security_group",
      "authorize_security_group_ingress", "create_key_pair", "create_instances">>

\* the provisioning calls the current run has made so far
ProvisionCallsMade(r) ==
    LET calls == cloud[r].calls
    IN  SubSeq(calls, 1, IF Len(calls) < Len(ProvisionCalls)
                         THEN Len(calls) ELSE Len(ProvisionCalls))

\* C14: create_instances is requested only after the security group was
\* created and authorised and its id recorded, and after the key pair was
\* created and written to ssh_key_path; the id list passed is set; a run
\* whose security group step fails requests no key pair and no instance
C14_InstanceAfterGroupAndKey ==
    \A r \in Records :
        /\ IsPrefix(ProvisionCallsMade(r), ProvisionCalls)
        /\ pc[r] = "create_instances" \/ "create_instances" \in Range(cloud[r].calls) =>
             /\ obj[r].ec2_security_group_ids =
                  "[sg-" \o obj[r].ec2_security_group \o "]"
             /\ Exists(obj[r].ssh_key_path)
             /\ fs[obj[r].ssh_key_path] = "KeyMaterial(" \o obj[r].ec2_key_name \o ")"
        /\ pc[r] = "Failed" /\ failedAt[r] = "create_security_group" =>
             /\ "create_key_pair" \notin Range(cloud[r].calls)
             /\ "create_instances" \notin Range(cloud[r].calls)

\* C14 witness: the instance has been requested
C14_Witness ==
    pc["r1"] = "wait_until_running" /\ ProvisionCallsMade("r1") = ProvisionCalls

\* the points of create() from the first remote command on
RemotePoints ==
    {"apt_install", "pip_install", "make_zip_file", "echo_removing", "rm_old",
     "send_zip", "unzip", "echo_extracted", "info_base", "info_aws"} \cup SetPoints

\* what the remote machine sees of create(), in the order of lines 79-92
RemoteLog ==
    <<Cmd("apt_install"), Cmd("pip_install"), Cmd("echo_removing"),
      Cmd("rm_old"), "send " \o SendDst("send_zip"), Cmd("unzip"),
      Cmd("echo_extracted")>>

\* unzip is issued only on the archive this run packed and sent
ExtractsOwnTransfer(r) ==
    pc[r] = "unzip" =>
        /\ Exists(ZipPath)
        /\ host[r].zip # None
        /\ host[r].zip = fs[ZipPath]

\* C15 as stated: the archive is transferred before the old workspace is
\* removed, and extraction finds the transferred archive
C15_TransferBeforeRemove ==
    \A r \in Records :
        /\ pc[r] \in RemotePoints /\ Cmd("rm_old") \in Range(host[r].log) =>
             "send " \o SendDst("send_zip") \in Range(host[r].log)
        /\ ExtractsOwnTransfer(r)

\* C15 amended: pack, remove the old workspace and the old archive, transfer,
\* then extract; every remote step is issued after the local archive exists
\* from the removal on, and extraction finds the transferred archive
C15_RemoveBeforeTransfer ==
    \A r \in Records :
        /\ pc[r] \in RemotePoints => IsPrefix(host[r].log, RemoteLog)
        /\ pc[r] \in {"echo_removing", "rm_old", "send_zip"} => Exists(ZipPath)
        /\ pc[r] = "send_zip" => host[r].zip = None /\ host[r].fog_ws = None
        /\ ExtractsOwnTransfer(r)

\* C15 witness: the archive has been extracted on the remote machine
C15_Witness ==
    /\ pc["r1"] = "echo_extracted"
    /\ host["r1"].fog_ws = "zip of " \o obj["r1"].ros_workspace

\* the points of create_ec2_instance after the request (lines 267-277)
WaitPoints == {"wait_until_running", "reload", "poll"}

\* create_ec2_instance has returned in the current run
InstanceStepReturned(r) == "BackendProvisioned" \in Range(history[r])

\* create_ec2_instance was left by an exception of the waiter or of a reload
ApiRaised(r) ==
    /\ pc[r] = "Failed" /\ failedAt[r] \in WaitPoints
    /\ cloud[r].calls # <<>>
    /\ cloud[r].calls[Len(cloud[r].calls)] =
         IF failedAt[r] = "wait_until_running" THEN "WaiterError"
                                               ELSE "reload raised"

\* C16: create_ec2_instance returns only with the instance running and its
\* address read non-null; with an address that stays null it never returns,
\* and it is left early only by an exception of an API call, never by giving
\* up; with an address that is assigned and a thread that keeps running, the
\* step returns (or an API call raises)
C16_BlocksUntilAddress ==
    /\ [](\A r \in Records :
            /\ InstanceStepReturned(r) =>
                 /\ cloud[r].running
                 /\ ~cloud[r].never
                 /\ obj[r].public_ip = "ip-of-" \o cloud[r].instance
            /\ pc[r] = "Failed" /\ failedAt[r] \in WaitPoints => ApiRaised(r)
            /\ pc[r] = "poll" /\ cloud[r].never => obj[r].public_ip = None)
    /\ \A r \in Records :
         (pc[r] \in WaitPoints /\ ~cloud[r].never)
            ~> (InstanceStepReturned(r) \/ ApiRaised(r))

\* C16 witness: the step returned after a read that found no address
C16_Witness ==
    /\ pc["r1"] = "connect" /\ InstanceStepReturned("r1")
    /\ cloud["r1"].lag = 1 /\ cloud["r1"].reads = 2

\* the writes of <working_dir>/info made by the current run of r
Written(r) ==
    LET w == gate[r].snapshots
        at == {i \in DOMAIN w : w[i].run = run[r]}
    IN  [i \in 1..Cardinality(at) |-> w[Len(w) - Cardinality(at) + i]]

\* the current create() run of r has returned without an exception
Succeeded(r) == IsAWS(r) /\ pc[r] = "Returned"

\* C17 as stated: a successful cloud run writes the file twice, once between
\* BackendProvisioned and SessionEstablished and once after Ready
C17_WrittenAfterProvisionAndReady ==
    \A r \in Records :
        Succeeded(r) =>
            /\ Len(Written(r)) = 2
            /\ Written(r)[1].after = "BackendProvisioned"
            /\ Written(r)[2].after = "Ready"

\* C17 amended: every write of the file happens after WorkspaceSynced and
\* before Ready, with the flag of a first run still false; a successful cloud
\* run has written the file twice in a row there, base fields then all fields
C17_WrittenBeforeReady ==
    \A r \in Records :
        /\ \A i \in DOMAIN gate[r].snapshots :
             /\ gate[r].snapshots[i].after = "WorkspaceSynced"
             /\ gate[r].snapshots[i].run = 1 => ~gate[r].snapshots[i].ready
        /\ Succeeded(r) =>
             /\ Len(Written(r)) = 2
             /\ Written(r)[1].fields = "base"
             /\ Written(r)[2].fields = "all"
             /\ fs[InfoPath(obj[r])] = InfoAWS(obj[r])

\* C17 witness: the first run has returned and has written the file twice
C17_Witness ==
    Succeeded("r1") /\ run["r1"] = 1 /\ Len(Written("r1")) = 2

IsBase(r) == obj[r].variant = "CloudInstance"

\* C18: create() of the base class always raises and changes nothing; a base
\* record never has the flag true, an address, a key path or a session, and
\* nothing was run on or sent to a remote machine for it
C18_BaseCreateRaises ==
    /\ [](\A r \in Records :
            IsBase(r) =>
              /\ ~obj[r].ready_state
              /\ obj[r].public_ip = None /\ obj[r].ssh_key_path = None
              /\ obj[r].scp = None
              /\ host[r] = NoHost /\ gate[r] = NoGate)
    /\ [][\A r \in Records :
            IsBase(r) /\ pc[r] = "Returned" /\ run'[r] # run[r] =>
              /\ pc'[r] = "Failed" /\ failedAt'[r] = "create"
              /\ obj' = obj /\ host' = host /\ fs' = fs
              /\ cloud' = cloud /\ gate' = gate]_vars

\* C18 witness: create() was called on a base record and raised
C18_Witness ==
    /\ IsBase("r1") /\ run["r1"] > 0
    /\ pc["r1"] = "Failed" /\ failedAt["r1"] = "create"

\* the file <working_dir>/info of r holds a snapshot with all the fields
HoldsFullSnapshot(r) ==
    /\ Exists(InfoPath(obj[r]))
    /\ gate[r].snapshots # <<>>
    /\ gate[r].snapshots[Len(gate[r].snapshots)].fields = "all"

\* C19: whenever get_ready_state of a cloud record is about to return true,
\* the file <working_dir>/info exists and holds the full snapshot, cloud-only
\* fields included, never the base fields alone
C19_ReadyImpliesSnapshot ==
    \A t \in Readers :
        rd[t].pc = "get_return" /\ rd[t].ready /\ IsAWS(rd[t].rec)
            => HoldsFullSnapshot(rd[t].rec)

====
